---- MODULE Spec2Model ----
(***************************************************************************)
(* bkh::encoding::utf8::decode (src/src/utf8.h): a table-driven DFA that   *)
(* decodes UTF-8 code units into UTF-32 code points.  The model runs one   *)
(* call of decode, one control-flow step of the function per action, on an *)
(* input drawn from the byte strings over Bytes of length <= MaxLen.       *)
(* Positions are offsets from input_begin: the iterator `input` is pos and *)
(* the iterator `end` is Len(input).                                       *)
(***************************************************************************)
EXTENDS Integers, Sequences, FiniteSets, TLC

(* ---------------- bounds of the model ---------------- *)

\* longest input of a call
MaxLen == 4

\* the code units inputs are built from: for every character class of
\* octet_category its first and/or last octet, both sides of the 0x80 and
\* 0xC2 guards of decode, and the first initial_state entry that is ERR
Bytes ==
  { 0, 65, 127,         \* 0x00, 0x41, 0x7F ASC
    128, 143,           \* 0x80, 0x8F CR1
    144,                \* 0x90 CR2
    160, 191,           \* 0xA0, 0xBF CR3
    192, 193,           \* 0xC0, 0xC1 ILL, below the 0xC2 guard
    194,                \* 0xC2 L2A
    224,                \* 0xE0 L3A
    225,                \* 0xE1 L3B
    237,                \* 0xED L3C
    240,                \* 0xF0 L4A
    241,                \* 0xF1 L4B
    244,                \* 0xF4 L4C
    245 }               \* 0xF5 ILL, initial_state gives ERR

\* the byte strings over Bytes of length n
Inputs(n) == [1..n -> Bytes]

\* longest input of a call in a sequence of calls
MaxCallLen == 3

\* the code units of the calls of a sequence: two ASCII letters, a
\* continuation byte and the first byte of a 2-, 3- and 4-byte sequence
SeqBytes == { 65, 66, 128, 194, 225, 241 }

CallInputs(n) == [1..n -> SeqBytes]

\* longest input of each of two calls that run at the same time
MaxConcLen == 3

\* the code units of those calls: an ASCII letter, a continuation byte and
\* the first byte of a 2- and of a 3-byte sequence
ConcBytes == { 65, 128, 194, 225 }

ConcInputs(n) == [1..n -> ConcBytes]

(* ---------------- enum character_class_t ---------------- *)

ILL == 0
ASC == 1
CR1 == 2
CR2 == 3
CR3 == 4
L2A == 5
L3A == 6
L3B == 7
L3C == 8
L4A == 9
L4B == 10
L4C == 11

(* ---------------- enum dfa_state_t ---------------- *)

BGN == 0
ERR == 12
CS1 == 24
CS2 == 36
CS3 == 48
P3A == 60
P3B == 72
P4A == 84
P4B == 96
END == BGN

(* ---------------- struct _lookup ---------------- *)

\* the values of dfa_state_t
DfaStates == { BGN, ERR, CS1, CS2, CS3, P3A, P3B, P4A, P4B }

\* the values of character_class_t
CharacterClasses == { ILL, ASC, CR1, CR2, CR3, L2A, L3A, L3B, L3C, L4A, L4B, L4C }

\* one element of initial_state: { uint8_t code_point; dfa_state_t state; }
IS(cp, st) == [code_point |-> cp, state |-> st]

initial_state ==
  <<
    IS(2, CS1), IS(3, CS1), IS(4, CS1), IS(5, CS1),
    IS(6, CS1), IS(7, CS1), IS(8, CS1), IS(9, CS1),
    IS(10, CS1), IS(11, CS1), IS(12, CS1), IS(13, CS1),
    IS(14, CS1), IS(15, CS1), IS(16, CS1), IS(17, CS1),
    IS(18, CS1), IS(19, CS1), IS(20, CS1), IS(21, CS1),
    IS(22, CS1), IS(23, CS1), IS(24, CS1), IS(25, CS1),
    IS(26, CS1), IS(27, CS1), IS(28, CS1), IS(29, CS1),
    IS(30, CS1), IS(31, CS1), IS(0, P3A), IS(1, CS2),
    IS(2, CS2), IS(3, CS2), IS(4, CS2), IS(5, CS2),
    IS(6, CS2), IS(7, CS2), IS(8, CS2), IS(9, CS2),
    IS(10, CS2), IS(11, CS2), IS(12, CS2), IS(13, P3B),
    IS(14, CS2), IS(15, CS2), IS(0, P4A), IS(1, CS3),
    IS(2, CS3), IS(3, CS3), IS(4, P4B), IS(245, ERR),
    IS(246, ERR), IS(247, ERR), IS(248, ERR), IS(249, ERR),
    IS(250, ERR), IS(251, ERR), IS(252, ERR), IS(253, ERR),
    IS(254, ERR), IS(255, ERR)
  >>

octet_category ==
  <<
    ASC, ASC, ASC, ASC, ASC, ASC, ASC, ASC, ASC, ASC, ASC, ASC, ASC, ASC, ASC, ASC,
    ASC, ASC, ASC, ASC, ASC, ASC, ASC, ASC, ASC, ASC, ASC, ASC, ASC, ASC, ASC, ASC,
    ASC, ASC, ASC, ASC, ASC, ASC, ASC, ASC, ASC, ASC, ASC, ASC, ASC, ASC, ASC, ASC,
    ASC, ASC, ASC, ASC, ASC, ASC, ASC, ASC, ASC, ASC, ASC, ASC, ASC, ASC, ASC, ASC,
    ASC, ASC, ASC, ASC, ASC, ASC, ASC, ASC, ASC, ASC, ASC, ASC, ASC, ASC, ASC, ASC,
    ASC, ASC, ASC, ASC, ASC, ASC, ASC, ASC, ASC, ASC, ASC, ASC, ASC, ASC, ASC, ASC,
    ASC, ASC, ASC, ASC, ASC, ASC, ASC, ASC, ASC, ASC, ASC, ASC, ASC, ASC, ASC, ASC,
    ASC, ASC, ASC, ASC, ASC, ASC, ASC, ASC, ASC, ASC, ASC, ASC, ASC, ASC, ASC, ASC,
    CR1, CR1, CR1, CR1, CR1, CR1, CR1, CR1, CR1, CR1, CR1, CR1, CR1, CR1, CR1, CR1,
    CR2, CR2, CR2, CR2, CR2, CR2, CR2, CR2, CR2, CR2, CR2, CR2, CR2, CR2, CR2, CR2,
    CR3, CR3, CR3, CR3, CR3, CR3, CR3, CR3, CR3, CR3, CR3, CR3, CR3, CR3, CR3, CR3,
    CR3, CR3, CR3, CR3, CR3, CR3, CR3, CR3, CR3, CR3, CR3, CR3, CR3, CR3, CR3, CR3,
    ILL, ILL, L2A, L2A, L2A, L2A, L2A, L2A, L2A, L2A, L2A, L2A, L2A, L2A, L2A, L2A,
    L2A, L2A, L2A, L2A, L2A, L2A, L2A, L2A, L2A, L2A, L2A, L2A, L2A, L2A, L2A, L2A,
    L3A, L3B, L3B, L3B, L3B, L3B, L3B, L3B, L3B, L3B, L3B, L3B, L3B, L3C, L3B, L3B,
    L4A, L4B, L4B, L4B, L4C, ILL, ILL, ILL, ILL, ILL, ILL, ILL, ILL, ILL, ILL, ILL
  >>

state_transition ==
  <<
    ERR, END, ERR, ERR, ERR, CS1, P3A, CS2, P3B, P4A, CS3, P4B,
    ERR, ERR, ERR, ERR, ERR, ERR, ERR, ERR, ERR, ERR, ERR, ERR,
    ERR, ERR, END, END, END, ERR, ERR, ERR, ERR, ERR, ERR, ERR,
    ERR, ERR, CS1, CS1, CS1, ERR, ERR, ERR, ERR, ERR, ERR, ERR,
    ERR, ERR, CS2, CS2, CS2, ERR, ERR, ERR, ERR, ERR, ERR, ERR,
    ERR, ERR, ERR, ERR, CS1, ERR, ERR, ERR, ERR, ERR, ERR, ERR,
    ERR, ERR, CS1, CS1, ERR, ERR, ERR, ERR, ERR, ERR, ERR, ERR,
    ERR, ERR, ERR, CS2, CS2, ERR, ERR, ERR, ERR, ERR, ERR, ERR,
    ERR, ERR, CS2, ERR, ERR, ERR, ERR, ERR, ERR, ERR, ERR, ERR
  >>

\* C array subscript: arrays are 0-based, TLA+ sequences 1-based
At(table, i) == table[i + 1]

\* variant of InitialState: 0xF4 starts in CS3 like 0xF1..0xF3
InitialState_f4(o) ==
  IF o = 244 THEN IS(4, CS3) ELSE At(initial_state, o - 194)

\* variant of InitialState: the entry of 0xEE repeats the bits of 0xED
InitialState_ee(o) ==
  IF o = 238 THEN IS(13, CS2) ELSE At(initial_state, o - 194)

\* variant of InitialState: the entry of 0xF5 goes on like that of 0xF4
InitialState_f5(o) ==
  IF o = 245 THEN IS(5, CS3) ELSE At(initial_state, o - 194)

\* variant of InitialState: the first octet is kept whole, as in the
\* entries of 0xF5..0xFF, not cut down to its payload bits
InitialState_raw(o) ==
  [code_point |-> o, state |-> At(initial_state, o - 194).state]

\* variant of InitialState: the table holds the number of the state, not
\* the offset of its row
InitialState_rowless(o) ==
  [code_point |-> At(initial_state, o - 194).code_point,
   state |-> At(initial_state, o - 194).state \div 12]

\* lookup.initial_state[octet - 0xC2], line 147
InitialState(o) == At(initial_state, o - 194)

\* lookup.octet_category[octet], line 163
Category(o) == At(octet_category, o)

\* variant of Transition: the P3B row lets CR3 through like the CS2 row
Transition_surrogate(st, cat) ==
  IF st = P3B /\ cat = CR3 THEN CS1 ELSE At(state_transition, st + cat)

\* variant of Transition: the P4B row lets CR2 through as well
Transition_p4b(st, cat) ==
  IF st = P4B /\ cat = CR2 THEN CS2 ELSE At(state_transition, st + cat)

\* lookup.state_transition[state + category], line 164
Transition(st, cat) == At(state_transition, st + cat)

(* ---------------- arithmetic of decode ---------------- *)

\* variant of IsAscii: compares with 0x7F
IsAscii_7f(o) == o < 127

\* octet < 0x80, line 137
IsAscii(o) == o < 128

\* octet < 0xC2, line 144
IsInvalid(o) == o < 194

\* the state decode has at line 151 after reading the octet o >= 0x80
\* first: the return of line 144 stands for ERR, else the table of line 147
StartState(o) == IF IsInvalid(o) THEN ERR ELSE InitialState(o).state


\* variant of Shl6: shifts by five
Shl6_five(cp) == (cp % 67108864) * 32

\* code_point << 6 on a 32-bit char32_t: the six top bits fall off
Shl6(cp) == (cp % 67108864) * 64

\* variant of Accumulate: the octet is not masked
Accumulate_nomask(cp, o) == Shl6(cp) + o

\* (code_point << 6) | (octet & 0x3F): the low six bits of the shifted
\* value are zero, so the bitwise or is a sum
Accumulate(cp, o) == Shl6(cp) + (o % 64)

(* ---------------- UTF-8 as the Unicode standard defines it ---------------- *)
(* Reference definitions the properties are stated against; they use the  *)
(* byte ranges of the standard and plain arithmetic, not the tables.      *)

\* a Unicode scalar value: 0..0x10FFFF without the surrogates
IsScalar(v) == v \in 0..1114111 /\ v \notin 55296..57343

\* the standard UTF-8 encoding of a scalar value
Encode(v) ==
  IF v < 128 THEN << v >>
  ELSE IF v < 2048 THEN << 192 + (v \div 64), 128 + (v % 64) >>
  ELSE IF v < 65536 THEN
    << 224 + (v \div 4096), 128 + ((v \div 64) % 64), 128 + (v % 64) >>
  ELSE
    << 240 + (v \div 262144), 128 + ((v \div 4096) % 64),
       128 + ((v \div 64) % 64), 128 + (v % 64) >>

\* the scalar values whose encodings are decoded besides the strings over
\* Bytes: both ends
\* of every range of the encoding and of the surrogate gap, and one value
\* in every 37
ScalarSample ==
  { v \in { 0, 127, 128, 2047, 2048, 4095, 4096, 53247, 53248, 55295,
            57344, 65535, 65536, 262143, 262144, 1048575, 1048576, 1114111 }
          \cup { 37 * k : k \in 0..30111 } : IsScalar(v) }

EncodedScalars == { Encode(v) : v \in ScalarSample }

\* a continuation byte 80..BF
IsTail(b) == b \in 128..191

\* s[i+1..i+n] is one well-formed sequence of n bytes (table 3-7 of the
\* standard); i is an offset, n a length
IsUnit(s, i, n) ==
  /\ i + n <= Len(s)
  /\ LET b1 == s[i + 1]
         b2 == s[i + 2]
         b3 == s[i + 3]
         b4 == s[i + 4]
     IN  \/ n = 1 /\ b1 \in 0..127
         \/ n = 2 /\ b1 \in 194..223 /\ IsTail(b2)
         \/ n = 3 /\ b1 = 224 /\ b2 \in 160..191 /\ IsTail(b3)
         \/ n = 3 /\ b1 \in (225..236) \cup (238..239) /\ IsTail(b2) /\ IsTail(b3)
         \/ n = 3 /\ b1 = 237 /\ b2 \in 128..159 /\ IsTail(b3)
         \/ n = 4 /\ b1 = 240 /\ b2 \in 144..191 /\ IsTail(b3) /\ IsTail(b4)
         \/ n = 4 /\ b1 \in 241..243 /\ IsTail(b2) /\ IsTail(b3) /\ IsTail(b4)
         \/ n = 4 /\ b1 = 244 /\ b2 \in 128..143 /\ IsTail(b3) /\ IsTail(b4)

\* the length of the sequence a first byte announces, 0 for a byte that
\* starts none
NeedLen(b1) ==
  IF b1 \in 0..127 THEN 1
  ELSE IF b1 \in 194..223 THEN 2
  ELSE IF b1 \in 224..239 THEN 3
  ELSE IF b1 \in 240..244 THEN 4
  ELSE 0

\* the length of the well-formed sequence at offset i of s, 0 if there is none
UnitLen(s, i) ==
  LET n == NeedLen(s[i + 1])
  IN  IF n > 0 /\ IsUnit(s, i, n) THEN n ELSE 0

\* the scalar value of the well-formed sequence of n bytes at offset i
UnitValue(s, i, n) ==
  CASE n = 1 -> s[i + 1]
    [] n = 2 -> (s[i + 1] - 192) * 64 + (s[i + 2] - 128)
    [] n = 3 -> (s[i + 1] - 224) * 4096 + (s[i + 2] - 128) * 64 + (s[i + 3] - 128)
    [] n = 4 -> (s[i + 1] - 240) * 262144 + (s[i + 2] - 128) * 4096
                  + (s[i + 3] - 128) * 64 + (s[i + 4] - 128)

\* the offset at which the maximal run of complete well-formed sequences
\* that starts at offset i ends
RECURSIVE RunEnd(_, _)
RunEnd(s, i) ==
  IF i < Len(s) /\ UnitLen(s, i) > 0 THEN RunEnd(s, i + UnitLen(s, i)) ELSE i

\* the scalar values of that run, in order
RECURSIVE RunValues(_, _)
RunValues(s, i) ==
  IF i < Len(s) /\ UnitLen(s, i) > 0
  THEN << UnitValue(s, i, UnitLen(s, i)) >> \o RunValues(s, i + UnitLen(s, i))
  ELSE << >>

\* s is well-formed UTF-8: a concatenation of well-formed sequences
WellFormed(s) == RunEnd(s, 0) = Len(s)

\* the bytes a first byte b1 may be followed by (table 3-7), {} if b1 does
\* not start a multi-byte sequence
SecondRange(b1) ==
  IF b1 \in 194..223 THEN 128..191
  ELSE IF b1 = 224 THEN 160..191
  ELSE IF b1 \in (225..236) \cup (238..239) THEN 128..191
  ELSE IF b1 = 237 THEN 128..159
  ELSE IF b1 = 240 THEN 144..191
  ELSE IF b1 \in 241..243 THEN 128..191
  ELSE IF b1 = 244 THEN 128..143
  ELSE {}

\* s[i+1..i+k] is the beginning of some well-formed sequence
IsUnitPrefix(s, i, k) ==
  /\ i + k <= Len(s)
  /\ k <= NeedLen(s[i + 1])
  /\ k >= 2 => s[i + 2] \in SecondRange(s[i + 1])
  /\ \A j \in 3..k : IsTail(s[i + j])

\* the number of bytes from offset i on that begin a well-formed sequence
GoodPrefix(s, i) ==
  IF IsUnitPrefix(s, i, 3) THEN 3
  ELSE IF IsUnitPrefix(s, i, 2) THEN 2
  ELSE IF IsUnitPrefix(s, i, 1) THEN 1
  ELSE 0

\* s is well-formed up to a sequence that the end of s cuts short
IsTruncated(s) ==
  LET i == RunEnd(s, 0)
  IN  i < Len(s) /\ i + GoodPrefix(s, i) = Len(s)

\* s has a byte that cannot continue what precedes it: the offending byte
HasOffender(s) ==
  LET i == RunEnd(s, 0)
  IN  i < Len(s) /\ i + GoodPrefix(s, i) < Len(s)

\* the offset of the offending byte
Offender(s) ==
  LET i == RunEnd(s, 0)
  IN  i + GoodPrefix(s, i)

(* ---------------- state of one call of decode ---------------- *)

VARIABLES
  input,       \* the code units [input_begin, input_end)
  pos,         \* the iterator `input`, as an offset from input_begin
  out,         \* the code points written through `output`, in order
  pc,          \* "outer": at while (check(input, end)), line 131
               \* "inner": at while (state > ERR), line 151
               \* "done":  decode has returned
  octet,       \* the local `octet`
  state,       \* the local `state`
  code_point,  \* the local `code_point`
  ret,         \* the returned iterator as an offset, -1 before the return
  exit,        \* the return statement taken: the source line, 0 before
  reads,       \* the offsets detail::read dereferenced, in order
  lookups,     \* the table elements read, in order: <<table, index>>
  t2           \* a second call of decode, running at the same time: its
               \* input, pos, out, pc, octet, state, code_point, ret, exit

\* the variables of the first call
call1 ==
  <<input, pos, out, pc, octet, state, code_point, ret, exit, reads, lookups>>

vars == <<call1, t2>>

\* detail::check(input, end)
check == pos # Len(input)

\* detail::read(input): the octet under the iterator
read == input[pos + 1]

\* the context of a call of decode on the input s, before its first step
Fresh(s) ==
  [input |-> s, pos |-> 0, out |-> << >>, pc |-> "outer", octet |-> 0,
   state |-> BGN, code_point |-> 0, ret |-> -1, exit |-> 0]

\* one step of decode on a context c: the step the actions below take on
\* the variables of the first call
StepOf(c) ==
  IF c.pc = "outer" THEN
    IF c.pos = Len(c.input) THEN
      [c EXCEPT !.pc = "done", !.ret = Len(c.input), !.exit = 177]
    ELSE
      LET o == c.input[c.pos + 1]
      IN  IF IsAscii(o) THEN
            [c EXCEPT !.octet = o, !.pos = c.pos + 1, !.out = Append(c.out, o)]
          ELSE IF IsInvalid(o) THEN
            [c EXCEPT !.octet = o, !.pos = c.pos + 1, !.pc = "done",
                      !.ret = c.pos + 1, !.exit = 144]
          ELSE
            [c EXCEPT !.octet = o, !.pos = c.pos + 1, !.pc = "inner",
                      !.code_point = InitialState(o).code_point,
                      !.state = InitialState(o).state]
  ELSE IF c.pc = "inner" THEN
    IF c.state > ERR THEN
      IF c.pos # Len(c.input) THEN
        LET o == c.input[c.pos + 1]
        IN  [c EXCEPT !.octet = o, !.pos = c.pos + 1,
                      !.code_point = Accumulate(c.code_point, o),
                      !.state = Transition(c.state, Category(o))]
      ELSE [c EXCEPT !.state = ERR]
    ELSE IF c.state = ERR THEN
      [c EXCEPT !.pc = "done", !.ret = c.pos, !.exit = 170]
    ELSE [c EXCEPT !.out = Append(c.out, c.code_point), !.pc = "outer"]
  ELSE c

\* decode run from a context c to its return
RECURSIVE Run(_)
Run(c) == IF c.pc = "done" THEN c ELSE Run(StepOf(c))

\* decode(s) as a function of its input alone: the code points written and
\* the position returned by a call that runs by itself
Decode(s) ==
  LET c == Run(Fresh(s))
  IN  [out |-> c.out, ret |-> c.ret]

\* the context of the first call, from its variables
Call1 ==
  [input |-> input, pos |-> pos, out |-> out, pc |-> pc, octet |-> octet,
   state |-> state, code_point |-> code_point, ret |-> ret, exit |-> exit]

Init ==
  /\ \/ \E n \in 0..MaxLen : input \in Inputs(n)
     \/ input \in EncodedScalars
  /\ pos = 0
  /\ out = <<>>
  /\ pc = "outer"
  /\ octet = 0
  /\ state = BGN
  /\ code_point = 0
  /\ ret = -1
  /\ exit = 0
  /\ reads = <<>>
  /\ lookups = <<>>
  /\ t2 = Fresh(<< >>)

\* line 131 fails, line 177: return end
ReturnEnd ==
  /\ pc = "outer"
  /\ ~check
  /\ pc' = "done"
  /\ ret' = Len(input)
  /\ exit' = 177
  /\ UNCHANGED <<input, pos, out, octet, state, code_point, reads, lookups, t2>>

\* lines 131-140: read an octet < 0x80 and write it
DecodeAscii ==
  /\ pc = "outer"
  /\ check
  /\ IsAscii(read)
  /\ octet' = read
  /\ pos' = pos + 1
  /\ reads' = Append(reads, pos)
  /\ out' = Append(out, read)
  /\ UNCHANGED <<input, pc, state, code_point, ret, exit, lookups, t2>>

\* variant of ReturnInvalid: tests the octet before advancing the iterator
ReturnInvalid_before ==
  /\ pc = "outer"
  /\ check
  /\ ~IsAscii(read)
  /\ IsInvalid(read)
  /\ octet' = read
  /\ reads' = Append(reads, pos)
  /\ pc' = "done"
  /\ ret' = pos
  /\ exit' = 144
  /\ UNCHANGED <<input, pos, out, state, code_point, lookups, t2>>

\* lines 131-144: read an octet in 0x80..0xC1 and return input
ReturnInvalid ==
  /\ pc = "outer"
  /\ check
  /\ ~IsAscii(read)
  /\ IsInvalid(read)
  /\ octet' = read
  /\ pos' = pos + 1
  /\ reads' = Append(reads, pos)
  /\ pc' = "done"
  /\ ret' = pos + 1
  /\ exit' = 144
  /\ UNCHANGED <<input, out, state, code_point, lookups, t2>>

\* variant of BeginSequence: `state` outlives the call and ERR is kept
BeginSequence_latched ==
  /\ pc = "outer"
  /\ check
  /\ ~IsAscii(read)
  /\ ~IsInvalid(read)
  /\ octet' = read
  /\ pos' = pos + 1
  /\ reads' = Append(reads, pos)
  /\ code_point' = InitialState(read).code_point
  /\ state' = IF state = ERR THEN ERR ELSE InitialState(read).state
  /\ lookups' = Append(lookups, <<"initial_state", read - 194>>)
  /\ pc' = "inner"
  /\ UNCHANGED <<input, out, ret, exit, t2>>

\* variant of BeginSequence: the bits of the first octet are added to the
\* code point of the sequence before
BeginSequence_carry ==
  /\ pc = "outer"
  /\ check
  /\ ~IsAscii(read)
  /\ ~IsInvalid(read)
  /\ octet' = read
  /\ pos' = pos + 1
  /\ reads' = Append(reads, pos)
  /\ code_point' = code_point + InitialState(read).code_point
  /\ state' = InitialState(read).state
  /\ lookups' = Append(lookups, <<"initial_state", read - 194>>)
  /\ pc' = "inner"
  /\ UNCHANGED <<input, out, ret, exit, t2>>

\* lines 131-148: read an octet >= 0xC2 and fetch its initial state
BeginSequence ==
  /\ pc = "outer"
  /\ check
  /\ ~IsAscii(read)
  /\ ~IsInvalid(read)
  /\ octet' = read
  /\ pos' = pos + 1
  /\ reads' = Append(reads, pos)
  /\ code_point' = InitialState(read).code_point
  /\ state' = InitialState(read).state
  /\ lookups' = Append(lookups, <<"initial_state", read - 194>>)
  /\ pc' = "inner"
  /\ UNCHANGED <<input, out, ret, exit, t2>>

\* lines 151-164: read a further octet, update code point and state
Continue ==
  /\ pc = "inner"
  /\ state > ERR
  /\ check
  /\ octet' = read
  /\ pos' = pos + 1
  /\ reads' = Append(reads, pos)
  /\ code_point' = Accumulate(code_point, read)
  /\ state' = Transition(state, Category(read))
  /\ lookups' = lookups \o << <<"octet_category", read>>,
                              <<"state_transition", state + Category(read)>> >>
  /\ UNCHANGED <<input, out, pc, ret, exit, t2>>

\* variant of Truncated: the end of the input ends the sequence
Truncated_accept ==
  /\ pc = "inner"
  /\ state > ERR
  /\ ~check
  /\ state' = END
  /\ UNCHANGED <<input, pos, out, pc, octet, code_point, ret, exit, reads,
                 lookups, t2>>

\* variant of Truncated: the else branch of line 166 is missing
Truncated_spin ==
  /\ pc = "inner"
  /\ state > ERR
  /\ ~check
  /\ UNCHANGED <<input, pos, out, pc, octet, state, code_point, ret, exit,
                 reads, lookups, t2>>

\* lines 151-166: the input ended inside a sequence
Truncated ==
  /\ pc = "inner"
  /\ state > ERR
  /\ ~check
  /\ state' = ERR
  /\ UNCHANGED <<input, pos, out, pc, octet, code_point, ret, exit, reads,
                 lookups, t2>>

\* variant of ReturnError: returns the position of the octet that failed
ReturnError_rewind ==
  /\ pc = "inner"
  /\ ~(state > ERR)
  /\ state = ERR
  /\ pc' = "done"
  /\ ret' = pos - 1
  /\ exit' = 170
  /\ UNCHANGED <<input, pos, out, octet, state, code_point, reads, lookups, t2>>

\* line 170: return input
ReturnError ==
  /\ pc = "inner"
  /\ ~(state > ERR)
  /\ state = ERR
  /\ pc' = "done"
  /\ ret' = pos
  /\ exit' = 170
  /\ UNCHANGED <<input, pos, out, octet, state, code_point, reads, lookups, t2>>

\* line 173: write the code point, back to line 131
Emit ==
  /\ pc = "inner"
  /\ ~(state > ERR)
  /\ state # ERR
  /\ out' = Append(out, code_point)
  /\ pc' = "outer"
  /\ UNCHANGED <<input, pos, octet, state, code_point, ret, exit, reads,
                 lookups, t2>>

Next ==
  \/ ReturnEnd
  \/ DecodeAscii
  \/ ReturnInvalid
  \/ BeginSequence
  \/ Continue
  \/ Truncated
  \/ ReturnError
  \/ Emit

Spec == Init /\ [][Next]_vars

\* decode is straight-line code on one thread: a call that can take a step
\* takes it
FairSpec == Spec /\ WF_vars(Next)

(* ---------------- a sequence of calls ---------------- *)

SeqInit ==
  /\ \E n \in 0..MaxCallLen : input \in CallInputs(n)
  /\ pos = 0
  /\ out = <<>>
  /\ pc = "outer"
  /\ octet = 0
  /\ state = BGN
  /\ code_point = 0
  /\ ret = -1
  /\ exit = 0
  /\ reads = <<>>
  /\ lookups = <<>>
  /\ t2 = Fresh(<< >>)

\* the caller calls decode again, with new iterators and a new output; the
\* locals octet, state and code_point of the new call are declared with an
\* initialiser (lines 134, 147, 148) and hold what the last call left in
\* them until then
Call ==
  /\ pc = "done"
  /\ \E n \in 0..MaxCallLen : input' \in CallInputs(n)
  /\ pos' = 0
  /\ out' = <<>>
  /\ pc' = "outer"
  /\ ret' = -1
  /\ exit' = 0
  /\ reads' = <<>>
  /\ lookups' = <<>>
  /\ UNCHANGED <<octet, state, code_point, t2>>

SeqNext ==
  \/ Next
  \/ Call

SpecSeq == SeqInit /\ [][SeqNext]_vars

(* ---------------- two calls at the same time ---------------- *)
(* Each call has its own iterators, output and locals (automatic          *)
(* variables of its own activation of decode); the two share the const    *)
(* object `lookup` only.  The steps of the two calls interleave freely.   *)

ConcInit ==
  /\ \E n \in 0..MaxConcLen : input \in ConcInputs(n)
  /\ pos = 0
  /\ out = <<>>
  /\ pc = "outer"
  /\ octet = 0
  /\ state = BGN
  /\ code_point = 0
  /\ ret = -1
  /\ exit = 0
  /\ reads = <<>>
  /\ lookups = <<>>
  /\ \E n \in 0..MaxConcLen : \E s \in ConcInputs(n) : t2 = Fresh(s)

\* variant of Step2: `state` and `code_point` are one static object that
\* both calls use
Step2_static ==
  /\ t2.pc # "done"
  /\ t2' = StepOf(t2)
  /\ state' = t2'.state
  /\ code_point' = t2'.code_point
  /\ UNCHANGED <<input, pos, out, pc, octet, ret, exit, reads, lookups>>

\* the second call takes a step of decode
Step2 ==
  /\ t2.pc # "done"
  /\ t2' = StepOf(t2)
  /\ UNCHANGED call1

ConcNext ==
  \/ Next
  \/ Step2

SpecConc == ConcInit /\ [][ConcNext]_vars

(* ---------------- properties ---------------- *)

\* the offsets 0..n-1 in order: what a single forward pass over n bytes reads
FirstOffsets(n) == [k \in 1..n |-> k - 1]

\* s is a prefix of t
IsPrefix(s, t) == Len(s) <= Len(t) /\ \A k \in 1..Len(s) : s[k] = t[k]

\* the state the last table lookup of the call gave
LastLookupState ==
  LET l == lookups[Len(lookups)]
  IN  IF l[1] = "initial_state" THEN At(initial_state, l[2]).state
      ELSE At(state_transition, l[2])

\* C1: decode leaves through `return end` (line 177), the DFA never in
\* ERR, exactly when the input is well-formed UTF-8 as the standard's
\* table 3-7 defines it; every other input takes an early return.
C1_ReturnEndIffWellFormed ==
  /\ state = ERR => ~WellFormed(input)
  /\ pc = "done" => ((exit = 177) <=> WellFormed(input))

\* a three-byte sequence that starts with 0xE0 and an ASCII byte, accepted
C1_Witness ==
  /\ pc = "done"
  /\ exit = 177
  /\ Len(input) = 4
  /\ input[1] = 224
  /\ Len(out) = 2

\* C2: decode of the standard encoding of a scalar value V writes exactly
\* V and returns the length of the encoding.
C2_RoundTrip ==
  pc = "done" /\ Len(input) \in 1..4 =>
    LET v == UnitValue(input, 0, Len(input))
    IN  /\ input \in EncodedScalars => IsScalar(v) /\ Encode(v) = input
        /\ IsScalar(v) /\ Encode(v) = input =>
             out = << v >> /\ ret = Len(input) /\ exit = 177

\* the encoding of U+1F5F5, four bytes, has been decoded
C2_Witness ==
  /\ pc = "done"
  /\ input = Encode(128501)
  /\ Len(input) = 4
  /\ out = << 128501 >>

\* C3: the returned position equals input_end exactly when the whole input
\* is well-formed, so that every failure shows in the return value.
C3_ReturnTellsFailure ==
  pc = "done" => ((ret = Len(input)) <=> WellFormed(input))

\* C4: when a byte cannot continue what precedes it, decode returns the
\* position one past that byte and has read the bytes up to it, once each,
\* and none after it.
C4_StopsPastOffender ==
  pc = "done" /\ HasOffender(input) =>
    LET bad == Offender(input)
    IN  /\ ret = bad + 1
        /\ reads = FirstOffsets(bad + 1)
        /\ exit \in {144, 170}
        /\ exit = 144 <=> input[bad + 1] \in 128..193 /\ bad = RunEnd(input, 0)

\* 0xE0 followed by an ASCII byte and two more bytes: stopped at 2
C4_Witness ==
  /\ pc = "done"
  /\ Len(input) = 4
  /\ input[1] = 224
  /\ input[2] = 65
  /\ ret = 2

\* C5: the code points written are those of the maximal leading run of
\* complete well-formed sequences of the input, in order, one per
\* sequence; nothing is written for the sequence decoding fails at.
C5_OutputIsLeadingRun ==
  /\ IsPrefix(out, RunValues(input, 0))
  /\ pc = "done" => out = RunValues(input, 0)

\* two sequences decoded, then a failure
C5_Witness ==
  /\ pc = "done"
  /\ exit = 170
  /\ Len(out) = 2
  /\ out[1] > 127

\* C6 as stated: decode of 0xC0 or 0xC1 followed by one continuation byte
\* returns position 2 and writes nothing.
C6_OverlongStopsAtTwo ==
  pc = "done" /\ Len(input) = 2 /\ input[1] \in {192, 193} /\ IsTail(input[2])
    => ret = 2 /\ out = << >>

\* C6 amended: decode of 0xC0 or 0xC1 followed by one continuation byte
\* returns position 1, having read the leading byte only, and writes
\* nothing.
C6_OverlongStopsAtOne ==
  pc = "done" /\ Len(input) = 2 /\ input[1] \in {192, 193} /\ IsTail(input[2])
    => ret = 1 /\ reads = << 0 >> /\ out = << >> /\ exit = 144

\* 0xC0 0x80 has been rejected
C6_Witness ==
  /\ pc = "done"
  /\ input = << 192, 128 >>
  /\ ret = 1

\* C7: decode of an input that begins 0xED, 0xA0..0xBF returns position 2
\* without reading a third byte and writes nothing.
C7_SurrogateStopsAtTwo ==
  pc = "done" /\ Len(input) >= 2 /\ input[1] = 237 /\ input[2] \in 160..191
    => ret = 2 /\ reads = << 0, 1 >> /\ out = << >> /\ exit = 170

\* 0xED 0xA0 0x80, the encoding of U+D800, has been rejected
C7_Witness ==
  /\ pc = "done"
  /\ input = << 237, 160, 128 >>
  /\ ret = 2

\* C8: when the input ends inside a multi-byte sequence, decode sets the
\* state to ERR itself (no table gave it), returns the end of the input
\* and writes the code points before the cut sequence only.
C8_TruncationStopsAtEnd ==
  pc = "done" /\ IsTruncated(input) =>
    /\ state = ERR
    /\ LastLookupState > ERR
    /\ exit = 170
    /\ ret = Len(input)
    /\ reads = FirstOffsets(Len(input))
    /\ out = RunValues(input, 0)
    /\ Len(out) < Len(input)

\* a lone 0xF0 has been rejected at position 1
C8_Witness ==
  /\ pc = "done"
  /\ input = << 240 >>
  /\ ret = 1
  /\ out = << >>

\* C9: an input of N bytes below 0x80 gives N code points equal to the
\* bytes and the return of input_end, without any table lookup.
C9_AsciiFastPath ==
  pc = "done" /\ (\A k \in 1..Len(input) : input[k] < 128) =>
    /\ out = input
    /\ ret = Len(input)
    /\ exit = 177
    /\ lookups = << >>

\* four ASCII bytes, among them 0x00 and 0x7F, have been decoded
C9_Witness ==
  /\ pc = "done"
  /\ input = << 0, 65, 127, 65 >>
  /\ Len(out) = 4

\* C10: decode of 0xF4 0x8F 0xBF 0xBF writes the one code point U+10FFFF
\* and returns position 4.
C10_MaxCodePoint ==
  pc = "done" /\ input = << 244, 143, 191, 191 >> =>
    out = << 1114111 >> /\ ret = 4

\* 0xF4 0x8F 0xBF 0xBF has been decoded to the end
C10_Witness ==
  /\ pc = "done"
  /\ input = << 244, 143, 191, 191 >>
  /\ exit = 177

\* C11: in a sequence of calls every call writes the code points and
\* returns the position that decode gives for its input when run by
\* itself, whatever the calls before it did.
C11_CallsAreIndependent ==
  pc = "done" => [out |-> out, ret |-> ret] = Decode(input)

\* "B" decoded by a call that follows a call that failed in the second
\* continuation byte of a 4-byte sequence
C11_Witness ==
  /\ pc = "done"
  /\ input = << 66 >>
  /\ out = << 66 >>
  /\ ret = 1
  /\ state = ERR
  /\ code_point = 4097

\* C12: however the steps of two calls interleave, each call is at every
\* moment on the way to the code points and the position that decode
\* gives for its input when run by itself, and has them when it returns.
C12_CallsDoNotInterfere ==
  /\ LET c == Run(Call1)
     IN  [out |-> c.out, ret |-> c.ret] = Decode(input)
  /\ LET c == Run(t2)
     IN  [out |-> c.out, ret |-> c.ret] = Decode(t2.input)
  /\ pc = "done" => [out |-> out, ret |-> ret] = Decode(input)
  /\ t2.pc = "done" =>
       /\ [out |-> t2.out, ret |-> t2.ret] = Decode(t2.input)
       /\ t2.out = RunValues(t2.input, 0)

\* the first call has decoded U+1000 and returned while the second call
\* is inside a 3-byte sequence
C12_Witness ==
  /\ pc = "done"
  /\ input = << 225, 128, 128 >>
  /\ out = << 4096 >>
  /\ t2.pc = "inner"
  /\ t2.pos = 2
  /\ t2.state = CS1

\* the DFA of the tables by itself: from state st at offset p of s every
\* byte goes through octet_category and state_transition; it stops in ERR,
\* or at the end of s, where only BGN accepts
RECURSIVE PureDFA(_, _, _)
PureDFA(s, p, st) ==
  IF st = ERR THEN [accept |-> FALSE, stop |-> p]
  ELSE IF p = Len(s) THEN [accept |-> st = BGN, stop |-> p]
  ELSE PureDFA(s, p + 1,
               At(state_transition, st + At(octet_category, s[p + 1])))

\* every byte 0x80..0xFF read first starts decode in the state of the BGN row
StartStatesAgree ==
  \A b \in 128..255 :
    StartState(b) = At(state_transition, BGN + At(octet_category, b))

\* C13: for every byte 0x80..0xFF the guard of line 144 and initial_state
\* give the state that the BGN row of state_transition gives, and decode
\* accepts, rejects and stops where the DFA of the two tables alone does
\* when it is fed every byte from BGN.
C13_GuardTableAndDfaAgree ==
  /\ StartStatesAgree
  /\ pc = "done" =>
       LET d == PureDFA(input, 0, BGN)
       IN  /\ ret = d.stop
           /\ (exit = 177) <=> d.accept

\* an ASCII byte, then 0xF5, which initial_state rejects, and one more byte
C13_Witness ==
  /\ pc = "done"
  /\ Len(input) = 3
  /\ input[1] = 65
  /\ input[2] = 245
  /\ ret = 2
  /\ exit = 170

\* the states in which continuation bytes are pending
PendingStates == { st \in DfaStates : st > ERR }

\* the bytes a pending state lets through
Allowed(st) ==
  CASE st \in {CS1, CS2, CS3} -> 128..191
    [] st = P3A -> 160..191
    [] st = P3B -> 128..159
    [] st = P4A -> 144..191
    [] st = P4B -> 128..143

\* the number of continuation bytes a state waits for
Pending(st) ==
  CASE st = BGN -> 0
    [] st = CS1 -> 1
    [] st \in {CS2, P3A, P3B} -> 2
    [] st \in {CS3, P4A, P4B} -> 3

\* the state an allowed byte leads to
After(st) ==
  CASE st = CS1 -> END
    [] st \in {CS2, P3A, P3B} -> CS1
    [] st \in {CS3, P4A, P4B} -> CS2

\* ERR is absorbing, a pending state goes to ERR on every byte it does not
\* allow and one pending byte down on every byte it allows
TransitionTableFacts ==
  /\ \A cat \in CharacterClasses : Transition(ERR, cat) = ERR
  /\ \A st \in PendingStates : \A b \in 0..255 :
       IF b \in Allowed(st)
       THEN /\ Transition(st, Category(b)) = After(st)
            /\ Pending(Transition(st, Category(b))) = Pending(st) - 1
       ELSE Transition(st, Category(b)) = ERR

\* a code point has just been written only with the state in BGN/END, and
\* decode never returns from a pending state
EmitsInBeginOnly ==
  /\ pc = "outer" /\ out # << >> => state = BGN
  /\ pc = "done" => state \in {BGN, ERR}
  /\ pc = "done" /\ exit = 177 => state = BGN

\* C14 as stated: the continuation-pending states are six; ERR is
\* absorbing; each pending state sends every byte outside its range to ERR
\* and every byte inside it one pending byte down; a code point is written
\* only when the state is back in BGN/END, the only accepting state.
C14_SixPendingStates ==
  /\ Cardinality(PendingStates) = 6
  /\ TransitionTableFacts
  /\ EmitsInBeginOnly

\* C14 amended: the same with the seven continuation-pending states CS1,
\* CS2, CS3, P3A, P3B, P4A, P4B that dfa_state_t declares.
C14_SevenPendingStates ==
  /\ PendingStates = { CS1, CS2, CS3, P3A, P3B, P4A, P4B }
  /\ Cardinality(PendingStates) = 7
  /\ TransitionTableFacts
  /\ EmitsInBeginOnly

\* 0xF4 0x8F read: P4B has let 0x8F through to CS2
C14_Witness ==
  /\ pc = "inner"
  /\ input[1] = 244
  /\ reads = << 0, 1 >>
  /\ octet = 143
  /\ state = CS2

\* the continuation bytes the inner loop has read in the present sequence:
\* two table lookups each, after the lookup of initial_state
InnerReads ==
  LET starts == { j \in 1..Len(lookups) : lookups[j][1] = "initial_state" }
      last == CHOOSE j \in starts : \A k \in starts : k <= j
  IN  (Len(lookups) - last) \div 2

\* the passes of the inner loop in the present sequence: its reads, and
\* the pass of line 166 if the input ended
InnerPasses ==
  InnerReads + (IF state = ERR /\ LastLookupState > ERR THEN 1 ELSE 0)

\* every byte up to the cursor has been read once, in order, none beyond
\* the end; a sequence takes 1 to 4 bytes and at most 3 inner passes
SinglePass ==
  /\ pos \in 0..Len(input)
  /\ reads = FirstOffsets(pos)
  /\ pc = "inner" => InnerPasses <= 3 /\ 1 + InnerReads \in 1..4
  /\ pc = "done" => ret \in 0..Len(input)

\* a step leaves the cursor or moves it one byte forward, and it moves it
\* only after check(input, end) held and together with the read of the byte
ForwardOnly ==
  \/ pos' = pos /\ reads' = reads
  \/ pos # Len(input) /\ pos' = pos + 1 /\ reads' = Append(reads, pos)

\* C15: decode returns on every input; it reads every byte at most once,
\* in order, each after a check that the end is not reached; a sequence
\* takes 1 to 4 bytes and the inner loop at most 3 passes; the returned
\* position is between input_begin and input_end.
C15_SinglePassAndTermination ==
  /\ []SinglePass
  /\ [][ForwardOnly]_vars
  /\ <>(pc = "done")

\* a 4-byte sequence has been decoded: three passes of the inner loop
C15_Witness ==
  /\ pc = "done"
  /\ exit = 177
  /\ reads = << 0, 1, 2, 3 >>
  /\ Len(out) = 1

\* the least value a sequence of n bytes may stand for
LeastOfLen(n) ==
  CASE n = 1 -> 0
    [] n = 2 -> 128
    [] n = 3 -> 2048
    [] n = 4 -> 65536

\* C16: every code point written is a scalar value (at most 0x10FFFF, no
\* surrogate) and not less than the least value of a sequence of its
\* length; code_point stays below 2^21 in every state, after the bytes of
\* a sequence that fails as well, so the shift by 6 never drops a bit of
\* the 32.
C16_ScalarValuesOnly ==
  /\ code_point \in 0..2097151
  /\ \A k \in 1..Len(out) : IsScalar(out[k])
  /\ pc = "outer" /\ out # << >> /\ octet >= 128 =>
       /\ out[Len(out)] = code_point
       /\ 1 + InnerReads \in 2..4
       /\ out[Len(out)] >= LeastOfLen(1 + InnerReads)

\* 0xF4 0x8F 0xBF and an ASCII byte: the sequence fails with all 21 bits
\* of code_point in use
C16_Witness ==
  /\ pc = "inner"
  /\ state = ERR
  /\ reads = << 0, 1, 2, 3 >>
  /\ code_point = 1114049

\* the index of a logged table read is inside the table
InBounds(l) ==
  CASE l[1] = "initial_state" -> l[2] \in 0..(Len(initial_state) - 1)
    [] l[1] = "octet_category" -> l[2] \in 0..(Len(octet_category) - 1)
    [] l[1] = "state_transition" -> l[2] \in 0..(Len(state_transition) - 1)

\* whatever octet is read, first or in the inner loop, the indices of lines
\* 147, 163 and 164 are inside the tables and the tables give declared
\* states and classes
AllIndicesInBounds ==
  /\ \A o \in 128..255 :
       ~IsInvalid(o) =>
         /\ o - 194 \in 0..(Len(initial_state) - 1)
         /\ InitialState(o).state \in DfaStates
  /\ \A o \in 0..255 : Category(o) \in CharacterClasses
  /\ \A st \in { x \in DfaStates : x > ERR } : \A cat \in CharacterClasses :
       /\ st + cat \in 0..(Len(state_transition) - 1)
       /\ Transition(st, cat) \in DfaStates

\* C17: every table read is in bounds (initial_state 0..61, octet_category
\* 0..255, state_transition 0..107), `state` always holds a declared state,
\* a multiple of 12 in 0..96, and the inner loop reads state_transition
\* from the row of a continuation-pending state only.
C17_TableReadsInBounds ==
  /\ Len(initial_state) = 62
  /\ Len(octet_category) = 256
  /\ Len(state_transition) = 108
  /\ AllIndicesInBounds
  /\ \A k \in 1..Len(lookups) : InBounds(lookups[k])
  /\ state \in DfaStates
  /\ state \in { 12 * n : n \in 0..8 }
  /\ \A k \in 1..Len(lookups) :
       lookups[k][1] = "state_transition" =>
         /\ lookups[k - 1][1] = "octet_category"
         /\ lookups[k][2] - At(octet_category, lookups[k - 1][2])
              \in { st \in DfaStates : st > ERR }

\* 0xF4 0xF4: state_transition has been read at its last element, 107
C17_Witness ==
  /\ pc = "inner"
  /\ lookups = << <<"initial_state", 50>>, <<"octet_category", 244>>,
                  <<"state_transition", 107>> >>
  /\ state = ERR

\* the first n bytes of s, and the rest
Front(s, n) == SubSeq(s, 1, n)

Rest(s, n) == SubSeq(s, n + 1, Len(s))

\* C18: for a well-formed X and any Y, decode(X ++ Y) writes the code
\* points of decode(X), then those of decode(Y), and returns |X| plus the
\* position decode(Y) returns; between two sequences the state is BGN/END
\* and what is left to do is what a new call on the rest of the input does.
C18_Concatenation ==
  /\ pc = "outer" =>
       /\ state = BGN
       /\ WellFormed(Front(input, pos))
       /\ out = Decode(Front(input, pos)).out
       /\ Run(Call1).out = out \o Decode(Rest(input, pos)).out
       /\ Run(Call1).ret = pos + Decode(Rest(input, pos)).ret
  /\ pc = "done" =>
       \A n \in 0..Len(input) :
         WellFormed(Front(input, n)) =>
           /\ Decode(Front(input, n)) =
                [out |-> RunValues(Front(input, n), 0), ret |-> n]
           /\ out = Decode(Front(input, n)).out \o Decode(Rest(input, n)).out
           /\ ret = n + Decode(Rest(input, n)).ret

\* two multi-byte sequences, one after the other, have been decoded
C18_Witness ==
  /\ pc = "done"
  /\ exit = 177
  /\ Len(input) = 4
  /\ Len(out) = 2
  /\ out[1] >= 128
  /\ out[2] >= 128

====
